---------------------------- MODULE Spec2Model ----------------------------
(***************************************************************************)
(* cppcheck-codequality: conversion of a CppCheck XML report into a Code   *)
(* Climate / GitLab "Code Quality" JSON report (src/src/__init__.py).      *)
(*                                                                         *)
(* A Python str is modelled as a sequence of text fragments whose          *)
(* concatenation is the string; + is \o.  Every text the code inspects     *)
(* character by character (a source line that is strip()ped, a number      *)
(* that is parsed by int(), the version that is compared with "1.82") is   *)
(* held one character per fragment.  A Python dict is a function whose     *)
(* DOMAIN is the set of keys present, so `"k" in d` is "k" \in DOMAIN d.   *)
(***************************************************************************)
EXTENDS Integers, Sequences, FiniteSets, TLC

VARIABLES
    CODE_QUAL_ELEMENT,  \* the module-level output-record template (a mutable dict)
    linecache_cache,    \* linecache's process-wide cache: path -> lines read
    fs,                 \* the source files on disk: path -> lines
    out_file,           \* the contents of fname_out
    xml_in,             \* the document given to the last conversion
    ret,                \* how the last conversion ended
    log,                \* the records logged at INFO or above by the last conversion
    fin,                \* the state of the input file handle
    base_dirs,          \* the base_dirs argument of the last call of convert_file
    pc                  \* "ready" before the conversion, "done" after it

vars == <<CODE_QUAL_ELEMENT, linecache_cache, fs, out_file, xml_in, ret, log, fin,
          base_dirs, pc>>

---------------------------------------------------------------------------
(* Bounds of the model *)

\* error elements in one document
MaxErrors == 2
\* location elements in one document (specification SpecLoc)
MaxLocs == 3

---------------------------------------------------------------------------
(* Text helpers *)

Has(d, k) == k \in DOMAIN d

Digits == {"0", "1", "2", "3", "4", "5", "6", "7", "8", "9"}

DigitChar == <<"0", "1", "2", "3", "4", "5", "6", "7", "8", "9">>

DigitVal == [c \in Digits |-> (CHOOSE i \in 1..10 : DigitChar[i] = c) - 1]

\* int(s) for a string of decimal digits
RECURSIVE int(_)
int(s) == IF s = <<>> THEN 0
          ELSE int(SubSeq(s, 1, Len(s) - 1)) * 10 + DigitVal[s[Len(s)]]

\* str(n) for n >= 0
RECURSIVE str(_)
str(n) == IF n < 10 THEN <<DigitChar[n + 1]>>
          ELSE str(n \div 10) \o <<DigitChar[(n % 10) + 1]>>

Whitespace == {" ", "\t", "\n", "\r"}

\* s.strip(): whitespace removed at both ends
RECURSIVE lstrip(_)
lstrip(s) == IF s # <<>> /\ Head(s) \in Whitespace THEN lstrip(Tail(s)) ELSE s

RECURSIVE rstrip(_)
rstrip(s) == IF s # <<>> /\ s[Len(s)] \in Whitespace
             THEN rstrip(SubSeq(s, 1, Len(s) - 1)) ELSE s

strip(s) == rstrip(lstrip(s))

\* s.split("\n"): the pieces between newline characters
RECURSIVE split_nl(_, _)
split_nl(s, piece) ==
    IF s = <<>> THEN <<piece>>
    ELSE IF Head(s) = "\n" THEN <<piece>> \o split_nl(Tail(s), <<>>)
    ELSE split_nl(Tail(s), Append(piece, Head(s)))

\* the characters of a version string in code point order
VersionChars == <<".", "/", "0", "1", "2", "3", "4", "5", "6", "7", "8", "9">>

CharOrd == [c \in {VersionChars[i] : i \in 1..Len(VersionChars)} |->
               CHOOSE i \in 1..Len(VersionChars) : VersionChars[i] = c]

\* a < b for Python strings: lexicographic by code point
RECURSIVE StrLess(_, _)
StrLess(a, b) ==
    IF b = <<>> THEN FALSE
    ELSE IF a = <<>> THEN TRUE
    ELSE IF CharOrd[Head(a)] # CharOrd[Head(b)] THEN CharOrd[Head(a)] < CharOrd[Head(b)]
    ELSE StrLess(Tail(a), Tail(b))

\* math.ceil(line / 10.0) for line >= 0
ceil_div10(line) == IF line % 10 = 0 THEN line \div 10 ELSE (line \div 10) + 1

\* hashlib.md5(s.encode("utf-8")).hexdigest(): a digest is a function of its input
\* alone; distinct inputs of the model get distinct digests
md5_hexdigest(s) == <<"md5:">> \o s

\* json.dumps(v): the serialised text of v, one text per value
json_dumps(v) == [json |-> v]


---------------------------------------------------------------------------
(* The input: a CppCheck XML document, and what xmltodict.parse makes of it *)

\* An XML document is either not well-formed, or a <results> element with a
\* <cppcheck version=...> element and an <errors> element holding <error>
\* elements; an <error> has attributes and <location> children, a <location>
\* has attributes only.
Malformed == [wellformed |-> FALSE, version |-> <<>>, errors |-> <<>>]

Document(version, errors) == [wellformed |-> TRUE, version |-> version, errors |-> errors]

\* an optional attribute: present unless its value is the empty string
Attr(k, v) == IF v = <<>> THEN <<>> ELSE <<[k |-> k, v |-> v]>>

AttrDict(pairs) == [k \in {pairs[i].k : i \in 1..Len(pairs)} |->
                       (CHOOSE i \in 1..Len(pairs) : pairs[i].k = k) ]

Attrs(pairs) == LET at == AttrDict(pairs) IN [k \in DOMAIN at |-> pairs[at[k]].v]

LocationElement(file, file0, line, column) ==
    Attrs(<<[k |-> "@file", v |-> file], [k |-> "@line", v |-> line]>>
          \o Attr("@file0", file0) \o Attr("@column", column))

ErrorElement(id, severity, msg, cwe, locations) ==
    [attrs |-> Attrs(<<[k |-> "@id", v |-> id], [k |-> "@severity", v |-> severity],
                       [k |-> "@msg", v |-> msg]>> \o Attr("@cwe", cwe)),
     locations |-> locations]

NoItem == [none |-> TRUE]

\* xmltodict: the children of one tag are a dict when there is one of them and a
\* list when there are several
Children(elems) ==
    [isList |-> Len(elems) > 1,
     one    |-> IF Len(elems) = 1 THEN elems[1] ELSE NoItem,
     many   |-> IF Len(elems) > 1 THEN elems ELSE <<>>]

\* the dict of one <error>: its attributes, and the key "location" when it has
\* <location> children
ParseError(e) ==
    IF e.locations = <<>> THEN e.attrs
    ELSE e.attrs @@ ("location" :> Children(e.locations))

\* dict_in["results"]: "errors" is None for an <errors> element without children
xmltodict_parse(xml) ==
    [cppcheck_version |-> xml.version,
     errors_is_dict   |-> xml.errors # <<>>,
     error            |-> Children([i \in 1..Len(xml.errors) |-> ParseError(xml.errors[i])])]

---------------------------------------------------------------------------
(* Module-level data *)

S_REQUIREMENT_CC == <<"--CODE-CLIMATE-REQUIREMENT--">>
S_REQUIREMENT_GL == <<"--GITLAB-REQUIREMENT--">>

\* CODE_QUAL_ELEMENT as the module defines it
CODE_QUAL_ELEMENT_0 ==
    [type        |-> <<"issue">>,
     check_name  |-> S_REQUIREMENT_CC,
     description |-> S_REQUIREMENT_CC,
     categories  |-> S_REQUIREMENT_CC,
     fingerprint |-> S_REQUIREMENT_GL,
     location    |-> [path |-> <<>>,
                      positions |-> [begin |-> [line |-> -1, column |-> -1]]]]

S_error == <<"e", "r", "r", "o", "r">>
S_warning == <<"w", "a", "r", "n", "i", "n", "g">>
S_style == <<"s", "t", "y", "l", "e">>
S_performance == <<"p", "e", "r", "f", "o", "r", "m", "a", "n", "c", "e">>
S_portability == <<"p", "o", "r", "t", "a", "b", "i", "l", "i", "t", "y">>
S_information == <<"i", "n", "f", "o", "r", "m", "a", "t", "i", "o", "n">>

\* the keys of map_severity_to_category
KnownSeverities ==
    {S_error, S_warning, S_style, S_performance, S_portability, S_information}

\* map_severity_to_category[cppcheck_severity], for a key of the dict
map_severity_to_category(cppcheck_severity) ==
    CASE cppcheck_severity = S_error       -> <<"B", "u", "g", " ", "R", "i", "s", "k">>
      [] cppcheck_severity = S_warning     -> <<"B", "u", "g", " ", "R", "i", "s", "k">>
      [] cppcheck_severity = S_style       -> <<"S", "t", "y", "l", "e">>
      [] cppcheck_severity = S_performance -> <<"P", "e", "r", "f", "o", "r", "m", "a", "n", "c", "e">>
      [] cppcheck_severity = S_portability -> <<"C", "o", "m", "p", "a", "t", "i", "b", "i", "l", "i", "t", "y">>
      [] cppcheck_severity = S_information -> <<"S", "t", "y", "l", "e">>

\* a lookup that falls back to a default category instead of raising
get_codeclimate_category_default(cppcheck_severity) ==
    IF cppcheck_severity \in KnownSeverities
    THEN [exc |-> "", value |-> map_severity_to_category(cppcheck_severity)]
    ELSE [exc |-> "", value |-> <<"S", "t", "y", "l", "e">>]

\* __get_codeclimate_category: the category, or KeyError for a severity that is
\* no key of the dict
get_codeclimate_category(cppcheck_severity) ==
    IF cppcheck_severity \in KnownSeverities
    THEN [exc |-> "", value |-> map_severity_to_category(cppcheck_severity)]
    ELSE [exc |-> "KeyError", value |-> <<>>]

---------------------------------------------------------------------------
(* linecache *)

\* linecache.getline(path, line): the line, or "" when the file cannot be read or
\* has no such line; the lines of a file that was read stay in the cache
getline(path, line, cache, files) ==
    LET lines  == IF cache[path].cached THEN cache[path].lines
                  ELSE IF files[path].exists THEN files[path].lines
                  ELSE <<>>
        cache2 == IF ~cache[path].cached /\ files[path].exists
                  THEN [cache EXCEPT ![path] = [cached |-> TRUE, lines |-> files[path].lines]]
                  ELSE cache
    IN  [text  |-> IF 1 <= line /\ line <= Len(lines) THEN lines[line] ELSE <<>>,
         cache |-> cache2]

---------------------------------------------------------------------------
(* __convert: one <error> record *)

\* tmp_dict = dict(CODE_QUAL_ELEMENT) is a shallow copy: its top-level entries are
\* its own, but tmp_dict["location"] IS CODE_QUAL_ELEMENT["location"], and
\* dict(CODE_QUAL_ELEMENT["location"])["positions"] IS
\* CODE_QUAL_ELEMENT["location"]["positions"].  Every write through these lands in
\* the template, which the operators below carry as tmpl; deepcopy() reads it.

SetPath(tmpl, path) == [tmpl EXCEPT !.location.path = path]
SetLine(tmpl, line) == [tmpl EXCEPT !.location.positions.begin.line = line]
SetColumn(tmpl, column) == [tmpl EXCEPT !.location.positions.begin.column = column]

\* deepcopy(loc_other): loc_other's own path and the positions it shares
deepcopy_loc_other(path, tmpl) == [path |-> path, positions |-> tmpl.location.positions]

\* the loop over error["location"][1:], at (1-based) entry i
RECURSIVE OtherLocations(_, _, _, _)
OtherLocations(locs, i, tmpl, others) ==
    IF i > Len(locs) THEN [exc |-> "", tmpl |-> tmpl, others |-> others]
    ELSE LET t1 == SetLine(tmpl, int(locs[i]["@line"]))
         IN  IF ~Has(locs[i], "@column")
             THEN [exc |-> "KeyError", tmpl |-> t1, others |-> others]
             ELSE LET t2 == SetColumn(t1, int(locs[i]["@column"]))
                  IN  OtherLocations(locs, i + 1, t2,
                          Append(others, deepcopy_loc_other(locs[i]["@file"], t2)))

\* the primary path of a record with several locations
ListPath(loc0) == IF Has(loc0, "@file0") THEN loc0["@file0"] ELSE loc0["@file"]

\* the primary path of a record with one location
DictPath(loc) == loc["@file"]

\* the column of a record with one location
DictColumn(loc) == IF Has(loc, "@column") THEN int(loc["@column"]) ELSE 0

\* path, line, column and other locations of a record that has "location"
Locate(error, tmpl) ==
    LET location == error["location"] IN
    IF location.isList
    THEN LET loc0 == location.many[1] IN
         IF ~Has(loc0, "@column")
         THEN [exc |-> "KeyError", tmpl |-> tmpl, path |-> <<>>, line |-> -1, column |-> -1,
               others |-> <<>>]
         ELSE LET r == OtherLocations(location.many, 2, tmpl, <<>>)
              IN  [exc |-> r.exc, tmpl |-> r.tmpl, path |-> ListPath(loc0),
                   line |-> int(loc0["@line"]), column |-> int(loc0["@column"]),
                   others |-> r.others]
    ELSE [exc |-> "", tmpl |-> tmpl, path |-> DictPath(location.one),
          line |-> int(location.one["@line"]), column |-> DictColumn(location.one),
          others |-> <<>>]

\* tmp_dict["check_name"]
CheckName(rule) == rule

\* cats: the category split at newlines, then the severity itself
Categories(category, severity) == Append(split_nl(category, <<>>), severity)

\* a description that never gets the CWE tag
Description_untagged(error) == error["@msg"]

\* tmp_dict["description"]
Description(error) ==
    IF Has(error, "@cwe")
    THEN <<"[CWE-">> \o error["@cwe"] \o <<"] ">> \o error["@msg"]
    ELSE error["@msg"]

\* tmp_dict["content"]["data"], for a record with "@cwe"
ContentData(cwe_id) ==
    <<"Refer to [CWE-">> \o cwe_id \o <<"](">>
    \o <<"https://cwe.mitre.org/data/definitions/">> \o cwe_id \o <<".html">> \o <<")">>

\* rounding down, as integer division would
RoundedLine_floor(line) == (line \div 10) * 10

\* the line component of the fingerprint string
RoundedLine(line) == ceil_div10(line) * 10

FingerprintStr(path, line, rule, codeline) ==
    path \o <<":">> \o str(RoundedLine(line)) \o <<"-">> \o rule \o <<"-">> \o codeline

\* the top-level entries tmp_dict holds itself at the append
TmpDict(error, rule, cats, others, fingerprint) ==
    LET base == [type        |-> CODE_QUAL_ELEMENT_0.type,
                 check_name  |-> CheckName(rule),
                 description |-> Description(error),
                 categories  |-> cats,
                 fingerprint |-> fingerprint]
        with_others == IF others = <<>> THEN base
                       ELSE base @@ ("other_locations" :> others)
    IN  IF Has(error, "@cwe")
        THEN with_others @@ ("content" :> [data |-> ContentData(error["@cwe"])])
        ELSE with_others

\* deepcopy(tmp_dict): its own entries and the location it shares with the template
deepcopy_tmp_dict(tmp_dict, tmpl) == tmp_dict @@ ("location" :> tmpl.location)

\* the body of the loop for one record; st is [tmpl, cache, dict_out, exc]
ConvertError(error, st, files) ==
    IF ~Has(error, "location") THEN st
    ELSE
    LET rule == error["@id"]
        cat  == get_codeclimate_category(error["@severity"])
    IN  IF cat.exc # "" THEN [st EXCEPT !.exc = cat.exc]
        ELSE
        LET cats == Categories(cat.value, error["@severity"])
            loc  == Locate(error, st.tmpl)
        IN  IF loc.exc # "" THEN [st EXCEPT !.exc = loc.exc, !.tmpl = loc.tmpl]
            ELSE
            LET tmpl     == SetColumn(SetLine(SetPath(loc.tmpl, loc.path), loc.line),
                                      loc.column)
                got      == getline(loc.path, loc.line, st.cache, files)
                codeline == strip(got.text)
                fingerprint == md5_hexdigest(
                                   FingerprintStr(loc.path, loc.line, rule, codeline))
                tmp_dict == TmpDict(error, rule, cats, loc.others, fingerprint)
            IN  [tmpl     |-> tmpl,
                 cache    |-> got.cache,
                 dict_out |-> Append(st.dict_out, deepcopy_tmp_dict(tmp_dict, tmpl)),
                 exc      |-> ""]

\* for error in dict_in["results"]["errors"]["error"], from record i on
RECURSIVE ConvertErrors(_, _, _, _)
ConvertErrors(errors, i, st, files) ==
    IF i > Len(errors) \/ st.exc # "" THEN st
    ELSE ConvertErrors(errors, i + 1, ConvertError(errors[i], st, files), files)

---------------------------------------------------------------------------
(* __convert and convert_file *)

Warning(msg) == [level |-> "WARNING", msg |-> msg]

S_1_82 == <<"1", ".", "8", "2">>

\* the warning for a report of a CppCheck older than 1.82
VersionLog(version) ==
    IF StrLess(version, S_1_82)
    THEN <<Warning("This was tested against a newer version of CppCheck")>>
    ELSE <<>>

\* dict_in["results"]["errors"]["error"] made a list when it is a single dict
ErrorList(error) == IF error.isList THEN error.many ELSE <<error.one>>

\* __convert(xml_input) with the template, the line cache and the files as they
\* are at the call; exc is the exception that leaves it, "" for a return.
\* (The early return for len(dict_in) == 0 is never taken: a document that parses
\* has its root element as the one key of dict_in.)
convert(xml, tmpl, cache, files) ==
    IF ~xml.wellformed
    THEN [exc |-> "ExpatError", value |-> json_dumps(<<>>), tmpl |-> tmpl, cache |-> cache,
          log |-> <<>>]
    ELSE
    LET results == xmltodict_parse(xml)
        log1    == VersionLog(results.cppcheck_version)
    IN  IF ~results.errors_is_dict
        THEN [exc |-> "", value |-> json_dumps(<<>>), tmpl |-> tmpl, cache |-> cache,
              log |-> Append(log1, Warning("Nothing to do"))]
        ELSE
        LET st == ConvertErrors(ErrorList(results.error), 1,
                      [tmpl |-> tmpl, cache |-> cache, dict_out |-> <<>>, exc |-> ""],
                      files)
        IN  IF st.exc # ""
            THEN [exc |-> st.exc, value |-> json_dumps(<<>>), tmpl |-> st.tmpl,
                  cache |-> st.cache, log |-> log1]
            ELSE [exc |-> "", value |-> json_dumps(st.dict_out), tmpl |-> st.tmpl,
                  cache |-> st.cache,
                  log |-> IF st.dict_out = <<>>
                          THEN Append(log1, Warning("Result is empty")) ELSE log1]

NoCall == [kind |-> "none", exc |-> "", value |-> ""]
Returned(v) == [kind |-> "returned", exc |-> "", value |-> v]
Raised(e) == [kind |-> "raised", exc |-> e, value |-> ""]

NoFile == [exists |-> FALSE, text |-> json_dumps(<<>>)]
FileWith(text) == [exists |-> TRUE, text |-> text]

\* the optional argument base_dirs of a call
NotPassed == [passed |-> FALSE, dirs |-> <<>>]
Passed(dirs) == [passed |-> TRUE, dirs |-> dirs]

\* a convert_file that writes the output in its finally clause
ConvertFile_partial(xml) ==
    /\ pc = "ready"
    /\ LET r == convert(xml, CODE_QUAL_ELEMENT, linecache_cache, fs) IN
       /\ CODE_QUAL_ELEMENT' = r.tmpl
       /\ linecache_cache' = r.cache
       /\ log' = r.log
       /\ fin' = "closed"
       /\ out_file' = FileWith(r.value)
       /\ ret' = IF r.exc # "" THEN Raised(r.exc) ELSE Returned("True")
    /\ xml_in' = xml
    /\ base_dirs' = NotPassed
    /\ pc' = "done"
    /\ UNCHANGED fs

\* convert_file(fname_in, fname_out), fname_in holding the document xml: the input
\* is opened and read, converted, and closed whether or not the conversion
\* raised; the output is written only after the conversion returned
ConvertFile(xml) ==
    /\ pc = "ready"
    /\ LET r == convert(xml, CODE_QUAL_ELEMENT, linecache_cache, fs) IN
       /\ CODE_QUAL_ELEMENT' = r.tmpl
       /\ linecache_cache' = r.cache
       /\ log' = r.log
       /\ fin' = "closed"
       /\ IF r.exc # ""
          THEN /\ ret' = Raised(r.exc)
               /\ out_file' = out_file
          ELSE /\ ret' = Returned("True")
               /\ out_file' = FileWith(r.value)
    /\ xml_in' = xml
    /\ base_dirs' = NotPassed
    /\ pc' = "done"
    /\ UNCHANGED fs

\* convert_file(fname_in, fname_out, base_dirs=dirs), the call of the command
\* line in __main__.py: the function has the two parameters fname_in and
\* fname_out, so the call raises TypeError before its body runs
ConvertFileBaseDirs(xml, dirs) ==
    /\ pc = "ready"
    /\ ret' = Raised("TypeError")
    /\ xml_in' = xml
    /\ base_dirs' = Passed(dirs)
    /\ pc' = "done"
    /\ UNCHANGED <<CODE_QUAL_ELEMENT, linecache_cache, fs, out_file, log, fin>>

---------------------------------------------------------------------------
(* The source files and the documents of the model *)

PATH_A == <<"a.c">>
PATH_B == <<"b.h">>
Paths == {PATH_A, PATH_B}

\* a.c: two lines, equal once stripped; b.h: one line
LINES_A == << <<" ", " ", "x", ";", "\n">>, <<"x", ";", "\t", "\n">> >>
LINES_B == << <<"y", "\n">> >>

FsAll == [p \in Paths |-> [exists |-> TRUE, lines |-> IF p = PATH_A THEN LINES_A ELSE LINES_B]]
FsNone == [p \in Paths |-> [exists |-> FALSE, lines |-> <<>>]]

EmptyCache == [p \in Paths |-> [cached |-> FALSE, lines |-> <<>>]]

ID_A == <<"uninitMemberVar">>
ID_B == <<"nullPointer">>
MSG == <<"bad">>
MSG_2 == <<"worse">>
CWE == <<"398">>
NONE == <<>>
S_note == <<"n", "o", "t", "e">>
V_1_90 == <<"1", ".", "9", "0">>
V_1_80 == <<"1", ".", "8", "0">>

SeqsUpTo(S, n) == UNION {[1..m -> S] : m \in 0..n}

\* Spec: every severity, with and without a cwe, with and without a location
PlainLocation == LocationElement(PATH_A, NONE, <<"5", "0">>, <<"5">>)

SevErrors ==
    {ErrorElement(id, sev, MSG, cwe, locs) :
        id \in {ID_A}, sev \in KnownSeverities \cup {S_note},
        cwe \in {NONE, CWE}, locs \in {<<>>, <<PlainLocation>>}}

SevDocs == {Malformed} \cup {Document(V_1_90, es) : es \in SeqsUpTo(SevErrors, MaxErrors)}

\* SpecLoc: every shape of the locations of a record, at most MaxLocs in a document
Locations ==
    {LocationElement(PATH_A, file0, <<"1">>, column) :
        file0 \in {NONE, PATH_B}, column \in {NONE, <<"5">>}}
    \cup {LocationElement(PATH_A, NONE, <<"2">>, column) : column \in {NONE, <<"5">>}}

RECURSIVE LocErrorSeqs(_, _)
LocErrorSeqs(n, budget) ==
    IF n = 0 THEN {<<>>}
    ELSE UNION {{<<ErrorElement(ID_A, S_style, MSG, NONE, locs)>> \o rest :
                    rest \in LocErrorSeqs(n - 1, budget - Len(locs))} :
                locs \in SeqsUpTo(Locations, budget)}

LocDocs == {Document(V_1_90, es) :
               es \in UNION {LocErrorSeqs(n, MaxLocs) : n \in 0..MaxErrors}}

\* SpecFp: one location per record, in and out of the file's lines
RuleAndFile == {<<ID_A, PATH_A>>, <<ID_A, PATH_B>>, <<ID_B, PATH_A>>}

\* what the fingerprint is not to depend on: severity, message, cwe, column
Plain == [severity |-> S_error, msg |-> MSG, cwe |-> NONE, column |-> NONE]
Other == [severity |-> S_warning, msg |-> MSG_2, cwe |-> CWE, column |-> <<"5">>]

FpErrors ==
    {ErrorElement(rf[1], v.severity, v.msg, v.cwe,
                  <<LocationElement(rf[2], NONE, line, v.column)>>) :
        rf \in RuleAndFile, v \in {Plain, Other},
        line \in {<<"1">>, <<"2">>, <<"4", "1">>, <<"5", "0">>, <<"5", "1">>}}

\* the documents of an old cppcheck hold at most one record
FpDocs ==
    {Document(V_1_90, es) : es \in SeqsUpTo(FpErrors, MaxErrors)}
    \cup {Document(V_1_80, es) : es \in SeqsUpTo(FpErrors, 1)}

\* SpecDirs: the source files are where the report says, nowhere, or under the
\* directory tests
DIR_TESTS == <<"tests">>

JoinPath(dir, path) == dir \o <<"/">> \o path

FsBase ==
    [p \in Paths \cup {JoinPath(DIR_TESTS, q) : q \in Paths} |->
        IF p \in Paths THEN FsNone[p]
        ELSE FsAll[CHOOSE q \in Paths : p = JoinPath(DIR_TESTS, q)]]

DirErrors ==
    {ErrorElement(ID_A, S_error, MSG, NONE, <<LocationElement(file, NONE, line, NONE)>>) :
        file \in Paths, line \in {<<"1">>, <<"2">>}}

DirDocs == {Document(V_1_90, es) : es \in SeqsUpTo(DirErrors, MaxErrors)}

DirLists == {<<>>, <<DIR_TESTS>>}

\* SpecSeq: a process that converts report after report while the sources are
\* edited; a.c with its first line rewritten
LINES_A_EDITED == << <<"z", ";", "\n">>, <<"x", ";", "\t", "\n">> >>

FsEdited == [FsAll EXCEPT ![PATH_A].lines = LINES_A_EDITED]

FsPool == {FsAll, FsNone, FsEdited}

OK_A == ErrorElement(ID_A, S_error, MSG, NONE, <<LocationElement(PATH_A, NONE, <<"1">>, NONE)>>)
BAD_SEVERITY ==
    ErrorElement(ID_B, S_note, MSG, NONE, <<LocationElement(PATH_A, NONE, <<"2">>, NONE)>>)

SeqDocs ==
    {Malformed} \cup
    {Document(V_1_90, es) : es \in SeqsUpTo({OK_A, BAD_SEVERITY}, MaxErrors)}

---------------------------------------------------------------------------
(* Specifications: one process, one conversion *)

Init ==
    /\ CODE_QUAL_ELEMENT = CODE_QUAL_ELEMENT_0
    /\ linecache_cache = EmptyCache
    /\ fs \in {FsAll, FsNone}
    /\ out_file = NoFile
    /\ xml_in = Malformed
    /\ ret = NoCall
    /\ log = <<>>
    /\ fin = "none"
    /\ base_dirs = NotPassed
    /\ pc = "ready"

Next == pc = "ready" /\ \E xml \in SevDocs : ConvertFile(xml)

Spec == Init /\ [][Next]_vars

NextLoc == pc = "ready" /\ \E xml \in LocDocs : ConvertFile(xml)

SpecLoc == Init /\ [][NextLoc]_vars

NextFp == pc = "ready" /\ \E xml \in FpDocs : ConvertFile(xml)

SpecFp == Init /\ [][NextFp]_vars

\* the library call and the call of the command line, the source files possibly
\* under a base directory
InitDirs ==
    /\ CODE_QUAL_ELEMENT = CODE_QUAL_ELEMENT_0
    /\ linecache_cache = EmptyCache
    /\ fs \in {FsAll, FsNone, FsBase}
    /\ out_file = NoFile
    /\ xml_in = Malformed
    /\ ret = NoCall
    /\ log = <<>>
    /\ fin = "none"
    /\ base_dirs = NotPassed
    /\ pc = "ready"

NextDirs ==
    /\ pc = "ready"
    /\ \/ \E xml \in DirDocs : ConvertFile(xml)
       \/ \E xml \in DirDocs, dirs \in DirLists : ConvertFileBaseDirs(xml, dirs)

SpecDirs == InitDirs /\ [][NextDirs]_vars

\* a process that uses the module as a library: the caller has the result of a
\* call and goes on to its next call
NextCall ==
    /\ pc = "done"
    /\ pc' = "ready"
    /\ UNCHANGED <<CODE_QUAL_ELEMENT, linecache_cache, fs, out_file, xml_in, ret, log,
                   fin, base_dirs>>

\* between two calls the source files are edited, removed or restored
EditSource ==
    /\ pc = "ready"
    /\ ret # NoCall
    /\ fs' \in FsPool \ {fs}
    /\ UNCHANGED <<CODE_QUAL_ELEMENT, linecache_cache, out_file, xml_in, ret, log, fin,
                   base_dirs, pc>>

NextSeq ==
    \/ pc = "ready" /\ \E xml \in SeqDocs : ConvertFile(xml)
    \/ NextCall
    \/ EditSource

SpecSeq == Init /\ [][NextSeq]_vars

---------------------------------------------------------------------------
(* What the claims speak about *)

Done == pc = "done"

ReturnedOk == Done /\ ret.kind = "returned"

\* the issues of the JSON array written by the conversion
Out == out_file.text.json

\* the <error> elements of the input that have a <location>, in document order
Located == SelectSeq(xml_in.errors, LAMBDA e : e.locations # <<>>)

AllSeveritiesKnown ==
    \A i \in 1..Len(Located) : Located[i].attrs["@severity"] \in KnownSeverities

\* the issue of the i-th located record exists
HasIssue(i) == ReturnedOk /\ Len(Out) = Len(Located) /\ i \in 1..Len(Out)

Contains(s, sub) ==
    \E k \in 1..(Len(s) - Len(sub) + 1) : SubSeq(s, k, k + Len(sub) - 1) = sub

\* the column the output is to show for a <location>
ColumnOf(loc) == IF Has(loc, "@column") THEN int(loc["@column"]) ELSE 0

---------------------------------------------------------------------------
\* the level of the report for a cppcheck severity
SeverityLevel(severity) ==
    CASE severity = S_error       -> <<"critical">>
      [] severity = S_warning     -> <<"major">>
      [] severity = S_style       -> <<"minor">>
      [] severity = S_performance -> <<"minor">>
      [] severity = S_portability -> <<"minor">>
      [] severity = S_information -> <<"info">>

\* C1: every issue carries a "severity" whose value is fixed by the record's
\* cppcheck severity: error->critical, warning->major, style, performance and
\* portability->minor, information->info.
C1_SeverityField ==
    ReturnedOk =>
        \A i \in 1..Len(Out) :
            /\ Has(Out[i], "severity")
            /\ Len(Out) = Len(Located) =>
                   Out[i]["severity"] = SeverityLevel(Located[i].attrs["@severity"])

---------------------------------------------------------------------------
\* the category of the report for a cppcheck severity
CategoryOf(severity) ==
    CASE severity = S_error       -> <<"B", "u", "g", " ", "R", "i", "s", "k">>
      [] severity = S_warning     -> <<"B", "u", "g", " ", "R", "i", "s", "k">>
      [] severity = S_style       -> <<"S", "t", "y", "l", "e">>
      [] severity = S_performance -> <<"P", "e", "r", "f", "o", "r", "m", "a", "n", "c", "e">>
      [] severity = S_portability -> <<"C", "o", "m", "p", "a", "t", "i", "b", "i", "l", "i", "t", "y">>
      [] severity = S_information -> <<"S", "t", "y", "l", "e">>

\* C2: for each of the six severities the issue's categories is the list
\* [fixed category, raw severity]; a located record with any other severity makes
\* the conversion fail with an error, and no issue is produced.
C2_Categories ==
    Done /\ xml_in.wellformed =>
        IF AllSeveritiesKnown
        THEN /\ ReturnedOk => Len(Out) = Len(Located)
             /\ \A i \in 1..Len(Located) : HasIssue(i) =>
                    Out[i].categories =
                        << CategoryOf(Located[i].attrs["@severity"]),
                           Located[i].attrs["@severity"] >>
        ELSE /\ ret.kind = "raised"
             /\ ~out_file.exists

C2_Witness ==
    /\ ReturnedOk /\ Len(Out) = 2
    /\ Out[1].categories = <<CategoryOf(S_portability), S_portability>>
    /\ Out[2].categories = <<CategoryOf(S_information), S_information>>

---------------------------------------------------------------------------
\* C3: check_name is "cppcheck[" + id + "]", never the bare id.
C3_CheckName ==
    \A i \in 1..Len(Located) : HasIssue(i) =>
        Out[i].check_name = <<"cppcheck[">> \o Located[i].attrs["@id"] \o <<"]">>

---------------------------------------------------------------------------
\* the line of the first <location> of a record
FirstLine(e) == int(e.locations[1]["@line"])

\* C4: for every well-formed document the conversion succeeds and the output
\* array holds exactly one issue per error record that has a location, in the
\* document order of those records; records without a location contribute
\* nothing, and a document without located records yields the array [].
C4_OneIssuePerLocatedRecord ==
    Done /\ xml_in.wellformed /\ AllSeveritiesKnown =>
        /\ ReturnedOk
        /\ out_file.exists
        /\ Len(Out) = Len(Located)
        /\ \A i \in 1..Len(Located) :
               Out[i].location.positions.begin.line = FirstLine(Located[i])
        /\ Located = <<>> => out_file.text = json_dumps(<<>>)

---------------------------------------------------------------------------
\* C5: a record with n > 1 locations yields an issue whose primary location is
\* taken from the first entry and whose other_locations are the path and line of
\* entries 2..n, in order, each with its own values; a record with one location
\* yields an issue without other_locations.
C5_OtherLocations ==
    Done /\ xml_in.wellformed /\ AllSeveritiesKnown =>
        \A i \in 1..Len(Located) :
            LET locs == Located[i].locations IN
            /\ HasIssue(i)
            /\ Out[i].location.positions.begin.line = int(locs[1]["@line"])
            /\ IF Len(locs) > 1
               THEN /\ Has(Out[i], "other_locations")
                    /\ Len(Out[i]["other_locations"]) = Len(locs) - 1
                    /\ \A k \in 2..Len(locs) :
                           LET other == Out[i]["other_locations"][k - 1] IN
                           /\ other.path = locs[k]["@file"]
                           /\ other.positions.begin.line = int(locs[k]["@line"])
               ELSE ~Has(Out[i], "other_locations")

---------------------------------------------------------------------------
\* C6: a location without a column attribute gets column 0 and the conversion
\* succeeds, be it the single location of a record, the first of several or a
\* secondary one.
C6_DefaultColumn ==
    Done /\ xml_in.wellformed /\ AllSeveritiesKnown =>
        \A i \in 1..Len(Located) :
            LET locs == Located[i].locations IN
            /\ HasIssue(i)
            /\ Out[i].location.positions.begin.column = ColumnOf(locs[1])
            /\ \A k \in 2..Len(locs) :
                   Out[i]["other_locations"][k - 1].positions.begin.column = ColumnOf(locs[k])

---------------------------------------------------------------------------
\* C7: when the first location of a record carries file0, the issue's primary
\* path is the file0 path and its description contains the file path, for a
\* record with one location as for a record with several.
C7_File0 ==
    \A i \in 1..Len(Located) :
        LET loc0 == Located[i].locations[1] IN
        HasIssue(i) /\ Has(loc0, "@file0") =>
            /\ Out[i].location.path = loc0["@file0"]
            /\ Contains(Out[i].description, loc0["@file"])

---------------------------------------------------------------------------
\* the page of a weakness
CweUrl(cwe_id) == <<"https://cwe.mitre.org/data/definitions/">> \o cwe_id \o <<".html">>

---------------------------------------------------------------------------
\* the least multiple of 10 that is >= line
LeastMultipleOf10(line) ==
    LET multiples == {10 * k : k \in 0..((line \div 10) + 1)}
    IN  CHOOSE m \in multiples :
            m >= line /\ \A m2 \in multiples : m2 >= line => m <= m2

\* the text of a line of a source file as it is on disk, "" when there is none
LineText(path, line) ==
    IF fs[path].exists /\ 1 <= line /\ line <= Len(fs[path].lines)
    THEN fs[path].lines[line] ELSE <<>>

IssueLine(issue) == issue.location.positions.begin.line

Components(issue) ==
    << issue.location.path, LeastMultipleOf10(IssueLine(issue)), issue.check_name,
       strip(LineText(issue.location.path, IssueLine(issue))) >>

KeyOf(c) == c[1] \o <<":">> \o str(c[2]) \o <<"-">> \o c[3] \o <<"-">> \o c[4]

\* C9: the fingerprint is the digest of a key built from the primary path, the
\* least multiple of 10 that is >= the line, the check name and the stripped text
\* of the source line, and of nothing else: two issues that agree on these four
\* get the same fingerprint.
C9_Fingerprint ==
    ReturnedOk =>
        /\ \A i \in 1..Len(Out) :
               Out[i].fingerprint = md5_hexdigest(KeyOf(Components(Out[i])))
        /\ \A i, j \in 1..Len(Out) :
               Components(Out[i]) = Components(Out[j]) =>
                   Out[i].fingerprint = Out[j].fingerprint

C9_Witness ==
    /\ ReturnedOk /\ Len(Out) = 2
    /\ IssueLine(Out[1]) = 1 /\ IssueLine(Out[2]) = 2
    /\ LineText(PATH_A, 1) # LineText(PATH_A, 2)
    /\ Out[1].location.path = PATH_A /\ Out[2].location.path = PATH_A
    /\ Out[1].location.positions.begin.column # Out[2].location.positions.begin.column
    /\ Out[1].description # Out[2].description
    /\ Out[1].categories # Out[2].categories
    /\ Has(Out[1], "content") # Has(Out[2], "content")
    /\ Out[1].fingerprint = Out[2].fingerprint

---------------------------------------------------------------------------
\* the source line of the first <location> of a record is not on disk
Unreadable(e) ==
    LET path == e.locations[1]["@file"] IN
    ~fs[path].exists \/ FirstLine(e) > Len(fs[path].lines)

\* C10: when the source line cannot be read (the line number exceeds the file's
\* line count, or the file is not found) the conversion does not fail: it logs a
\* warning, takes "" as the source line text and still emits the issue with a
\* fingerprint.
C10_UnreadableLine ==
    Done /\ xml_in.wellformed =>
        \A i \in 1..Len(Located) : Unreadable(Located[i]) =>
            /\ HasIssue(i)
            /\ \E k \in 1..Len(log) : log[k].level = "WARNING"
            /\ Out[i].fingerprint =
                   md5_hexdigest(KeyOf(<<Out[i].location.path,
                                         LeastMultipleOf10(IssueLine(Out[i])),
                                         Out[i].check_name, <<>> >>))

---------------------------------------------------------------------------
\* the file is on disk at the path
Exists(path) == path \in DOMAIN fs /\ fs[path].exists

\* the path as given, or the path under one of the base directories, is a file
Resolves(path, dirs) ==
    Exists(path) \/ \E k \in 1..Len(dirs) : Exists(JoinPath(dirs[k], path))

\* C11: convert_file takes a list of base directories; a record's source path is
\* tried as given and then under each base directory; when no candidate is a
\* file the call raises FileNotFoundError and emits nothing, and when every
\* record's file is found the conversion succeeds.
C11_BaseDirs ==
    Done /\ xml_in.wellformed =>
        IF \A i \in 1..Len(Located) :
               Resolves(Located[i].locations[1]["@file"], base_dirs.dirs)
        THEN ReturnedOk /\ out_file.exists
        ELSE ret = Raised("FileNotFoundError") /\ ~out_file.exists

---------------------------------------------------------------------------
\* the number a caller reads in the value convert_file returned; a Python bool
\* is an int, True being 1
CountOf(value) == IF value = "True" THEN 1 ELSE 0

\* C12: a successful convert_file returns the number of issues it produced, which
\* is the number of elements of the JSON array it wrote (0 for an empty result).
C12_ReturnsCount ==
    ReturnedOk => CountOf(ret.value) = Len(Out)

---------------------------------------------------------------------------
\* what the conversion of the last document gives in a process that has
\* converted nothing before, with the source files as they are
Fresh == convert(xml_in, CODE_QUAL_ELEMENT_0, EmptyCache, fs)

\* C13: no state is carried from one call to the next: after any sequence of
\* conversions the template CODE_QUAL_ELEMENT equals its initial value, and the
\* output of a call is what the input document and the source files at the time
\* of the call determine, whatever the earlier calls read.
C13_NoCarriedState ==
    Done =>
        /\ CODE_QUAL_ELEMENT = CODE_QUAL_ELEMENT_0
        /\ Fresh.exc = "" => ReturnedOk /\ out_file.text = Fresh.value

---------------------------------------------------------------------------
\* the document cannot be converted: it does not parse, or one of its records
\* with a location has a severity that is none of the six
Fails(xml) ==
    \/ ~xml.wellformed
    \/ \E i \in 1..Len(xml.errors) :
           /\ xml.errors[i].locations # <<>>
           /\ xml.errors[i].attrs["@severity"] \notin KnownSeverities

\* C14: a call of convert_file on a document that cannot be converted ends with
\* the error raised to the caller; a call that raises leaves the output file as
\* it was before the call (not created, not modified, whatever the records
\* before the failing one were) and the input file closed.
C14_NoPartialOutput ==
    [][pc = "ready" /\ pc' = "done" =>
          /\ Fails(xml_in') => ret'.kind = "raised"
          /\ ret'.kind = "raised" => out_file' = out_file /\ fin' = "closed"]_vars

C14_Witness ==
    /\ Done /\ ret = Raised("KeyError") /\ fin = "closed"
    /\ xml_in.errors = <<OK_A, BAD_SEVERITY>>
    /\ out_file.exists /\ Len(Out) > 0

=============================================================================
